---- MODULE Spec2Model ----
(***************************************************************************)
(* hogg2k.py: distance measures in cosmology (class Cosmos).               *)
(*                                                                         *)
(* Numbers.  The program computes in binary64 (Python float and numpy      *)
(* float64).  The model computes in a decimal floating point format with   *)
(* four significant digits: a finite number is m * 10^e with m = 0 or      *)
(* 1000 <= |m| <= 9999, every arithmetic operation rounds its exact result *)
(* to that format, and the program's literals are rounded to it.  Beside   *)
(* the finite numbers a value is +-inf or nan (what numpy returns, with a  *)
(* warning, where Python raises) or a raised exception, which every        *)
(* operation hands on to its caller as Python's stack unwinding does.      *)
(***************************************************************************)
EXTENDS Integers, Sequences, FiniteSets, TLC

VARIABLES
    om,     \* self.om
    ol,     \* self.ol
    h,      \* self.h
    c,      \* module-level c, speed of light in km/s
    pc,     \* the caller: "idle" between calls, "returned" holding a result
    call,   \* the attribute or method last called
    arg,    \* its redshift argument (None for the properties)
    branch, \* the curvature branches the call went through, in order
    ret     \* the value it returned, or the exception it raised

vars == <<om, ol, h, c, pc, call, arg, branch, ret>>

-----------------------------------------------------------------------------
(* Floating point values *)

Num(m, e) == [k |-> "num", m |-> m, e |-> e]

Zero == Num(0, 0)

Inf(s) == [k |-> "inf", m |-> s, e |-> 0]

NaN == [k |-> "nan", m |-> 0, e |-> 0]

Raise(exc) == [k |-> exc, m |-> 0, e |-> 0]

None == [k |-> "None", m |-> 0, e |-> 0]

IsRaise(a) == a.k \in {"ZeroDivisionError", "NameError"}

IsNum(a) == a.k = "num"

IsZero(a) == a = [k |-> "num", m |-> 0, e |-> 0]

Abs(n) == IF n < 0 THEN -n ELSE n

Sgn(n) == IF n < 0 THEN -1 ELSE IF n = 0 THEN 0 ELSE 1

P10 == <<10, 100, 1000, 10000, 100000, 1000000, 10000000, 100000000,
         1000000000>>

Pow10(n) == IF n = 0 THEN 1 ELSE P10[n]

NDigits(a) ==
    IF a < 10000
    THEN (IF a < 100 THEN (IF a < 10 THEN 1 ELSE 2)
                     ELSE (IF a < 1000 THEN 3 ELSE 4))
    ELSE IF a < 100000000
    THEN (IF a < 1000000 THEN (IF a < 100000 THEN 5 ELSE 6)
                         ELSE (IF a < 10000000 THEN 7 ELSE 8))
    ELSE (IF a < 1000000000 THEN 9 ELSE 10)

Carry(s, q, e) ==
    IF q = 10000 THEN Num(s * 1000, e + 1) ELSE Num(s * q, e)

Round(s, a, d, e) ==
    IF d <= 4
    THEN Num(s * a * Pow10(4 - d), e - (4 - d))
    ELSE Carry(s, (a + Pow10(d - 4) \div 2) \div Pow10(d - 4), e + d - 4)

\* The integer m * 10^e rounded to four significant digits (half away from 0).
Norm(m, e) ==
    IF m = 0 THEN Zero ELSE Round(Sgn(m), Abs(m), NDigits(Abs(m)), e)

\* A literal of the source: m * 10^e.
Lit(m, e) == Norm(m, e)

Neg(a) == IF a.k \in {"num", "inf"} THEN [a EXCEPT !.m = -a.m] ELSE a

\* abs()
FAbs(a) == IF a.k \in {"num", "inf"} THEN [a EXCEPT !.m = Abs(a.m)] ELSE a

Align(hi, lo) ==
    IF hi.e - lo.e > 5 THEN hi
    ELSE Norm(hi.m * Pow10(hi.e - lo.e) + lo.m, lo.e)

AddNum(a, b) ==
    IF a.m = 0 THEN b
    ELSE IF b.m = 0 THEN a
    ELSE IF a.e >= b.e THEN Align(a, b) ELSE Align(b, a)

\* a + b
Add(a, b) ==
    IF IsRaise(a) THEN a
    ELSE IF IsRaise(b) THEN b
    ELSE IF a.k = "nan" \/ b.k = "nan" THEN NaN
    ELSE IF a.k = "inf" THEN (IF b.k = "inf" /\ b.m # a.m THEN NaN ELSE a)
    ELSE IF b.k = "inf" THEN b
    ELSE AddNum(a, b)

\* a - b
Sub(a, b) == Add(a, Neg(b))

\* a * b
Mul(a, b) ==
    IF IsRaise(a) THEN a
    ELSE IF IsRaise(b) THEN b
    ELSE IF a.k = "nan" \/ b.k = "nan" THEN NaN
    ELSE IF a.k = "inf" \/ b.k = "inf"
         THEN (IF a.m = 0 \/ b.m = 0 THEN NaN ELSE Inf(Sgn(a.m) * Sgn(b.m)))
    ELSE Norm(a.m * b.m, a.e + b.e)

DivNum(a, b) ==
    IF a.m = 0 THEN Zero
    ELSE Norm(Sgn(a.m) * Sgn(b.m) * ((Abs(a.m) * 100000) \div Abs(b.m)),
              a.e - b.e - 5)

DivSpecial(a, b) ==
    IF a.k = "nan" \/ b.k = "nan" THEN NaN
    ELSE IF a.k = "inf"
         THEN (IF b.k = "inf" THEN NaN
               ELSE Inf(a.m * (IF b.m < 0 THEN -1 ELSE 1)))
    ELSE Zero

\* a / b of two Python floats: a zero divisor raises.
Div(a, b) ==
    IF IsRaise(a) THEN a
    ELSE IF IsRaise(b) THEN b
    ELSE IF IsZero(b) THEN Raise("ZeroDivisionError")
    ELSE IF a.k = "num" /\ b.k = "num" THEN DivNum(a, b)
    ELSE DivSpecial(a, b)

\* a / b where an operand is a numpy float64: a zero divisor gives inf or nan.
NpDiv(a, b) ==
    IF IsRaise(a) THEN a
    ELSE IF IsRaise(b) THEN b
    ELSE IF IsZero(b)
         THEN (IF a.k = "nan" \/ IsZero(a) THEN NaN ELSE Inf(Sgn(a.m)))
    ELSE IF a.k = "num" /\ b.k = "num" THEN DivNum(a, b)
    ELSE DivSpecial(a, b)

\* a < b, a == b, a > b of two floats (false when either is nan)
Lt(a, b) ==
    /\ a.k \in {"num", "inf"}
    /\ b.k \in {"num", "inf"}
    /\ IF a.k = "inf" THEN a.m < 0 /\ b # a
       ELSE IF b.k = "inf" THEN b.m > 0
       ELSE Sub(a, b).m < 0

Eq(a, b) == a.k \in {"num", "inf"} /\ a = b

Gt(a, b) == Lt(b, a)

Le(a, b) == Lt(a, b) \/ Eq(a, b)

\* x**2, x**3
Pow2(x) == Mul(x, x)

Pow3(x) == Mul(Mul(x, x), x)

\* Newton's iteration from x, at or above the root, down to floor(sqrt(n))
RECURSIVE IsqrtIter(_, _)
IsqrtStep(n, x, y) == IF y >= x THEN x ELSE IsqrtIter(n, y)

IsqrtIter(n, x) == IsqrtStep(n, x, (x + n \div x) \div 2)

IsqrtRound(n, r) == IF n - r * r > r THEN r + 1 ELSE r

\* the integer nearest to the square root of n, 0 < n < 10^9
IsqrtNear(n) ==
    IsqrtRound(n, IsqrtIter(n, IF n < 100000000 THEN 10000 ELSE 31623))

SqrtNum(a) ==
    IF a.e % 2 = 0
    THEN Norm(IsqrtNear(a.m * 10000), (a.e - 4) \div 2)
    ELSE Norm(IsqrtNear(a.m * 100000), (a.e - 5) \div 2)

\* numpy.sqrt
sqrt(a) ==
    IF IsRaise(a) THEN a
    ELSE IF a.k = "nan" THEN NaN
    ELSE IF a.m < 0 THEN NaN
    ELSE IF a.k = "inf" THEN a
    ELSE IF a.m = 0 THEN Zero
    ELSE SqrtNum(a)

One == Lit(1, 0)

Half == Lit(5, -1)

\* numpy.pi
pi == Lit(3142, -3)

\* term + term*x2*s/((2k)(2k+1)) + ... : the odd power series of sinh (s = 1)
\* and sin (s = -1), summed from the smallest term up
RECURSIVE OddSeries(_, _, _, _)
OddSeries(term, x2, s, k) ==
    IF k > 12 \/ IsZero(term) THEN Zero
    ELSE Add(term,
             OddSeries(Div(Mul(Mul(term, x2), Lit(s, 0)),
                           Lit((2 * k) * (2 * k + 1), 0)),
                       x2, s, k + 1))

\* numpy.sinh
sinh(x) ==
    IF IsRaise(x) \/ x.k = "inf" THEN x
    ELSE IF x.k = "nan" THEN NaN
    ELSE OddSeries(x, Pow2(x), 1, 1)

HalfPi == Mul(Half, pi)

RECURSIVE SinNum(_)
SinNum(x) ==
    IF x.m < 0 THEN Neg(SinNum(Neg(x)))
    ELSE IF Gt(x, Mul(Lit(3, 0), HalfPi))
         THEN SinNum(Sub(x, Mul(Lit(2, 0), pi)))
    ELSE IF Gt(x, HalfPi) THEN SinNum(Sub(pi, x))
    ELSE OddSeries(x, Pow2(x), -1, 1)

\* numpy.sin
sin(x) ==
    IF IsRaise(x) THEN x
    ELSE IF x.k # "num" THEN NaN
    ELSE SinNum(x)

\* a/1 + a*y2*(1/2)/3 + a*y2^2*(1*3/(2*4))/5 + ... : the series of arcsin
RECURSIVE AsinSeries(_, _, _)
AsinSeries(a, y2, n) ==
    IF n > 16 \/ IsZero(a) THEN Zero
    ELSE Add(Div(a, Lit(2 * n + 1, 0)),
             AsinSeries(Div(Mul(Mul(a, y2), Lit(2 * n + 1, 0)),
                            Lit(2 * n + 2, 0)),
                        y2, n + 1))

\* arcsin(y) = pi/2 - 2 arcsin(w), w = sqrt((1 - y)/2), for y near 1
AsinNearOne(w) ==
    Sub(HalfPi, Mul(Lit(2, 0), AsinSeries(w, Pow2(w), 0)))

AsinNum(y) ==
    IF y.m < 0 THEN Neg(AsinSeries(Neg(y), Pow2(y), 0))
    ELSE IF Gt(y, Lit(7, -1))
         THEN AsinNearOne(sqrt(Mul(Half, Sub(One, y))))
    ELSE AsinSeries(y, Pow2(y), 0)

\* numpy.arcsin: nan outside [-1, 1]
arcsin(y) ==
    IF IsRaise(y) THEN y
    ELSE IF y.k # "num" THEN NaN
    ELSE IF Gt(FAbs(y), One) THEN NaN
    ELSE AsinNum(y)

\* u + u^3/3 + u^5/5 + ... : the series of atanh
RECURSIVE AtanhSeries(_, _, _)
AtanhSeries(p, u2, n) ==
    IF n > 12 \/ IsZero(p) THEN Zero
    ELSE Add(Div(p, Lit(2 * n + 1, 0)), AtanhSeries(Mul(p, u2), u2, n + 1))

LnOfRatio(u) == Mul(Lit(2, 0), AtanhSeries(u, Pow2(u), 0))

\* the natural logarithm of y, 1 <= y < 10
LnNum(y) == LnOfRatio(Div(Sub(y, One), Add(y, One)))

\* log10(y), 1 <= y < 10, with r = sqrt(10)
Log10Mantissa(y, r) ==
    IF Lt(y, r)
    THEN Div(LnNum(y), LnNum(Lit(10, 0)))
    ELSE Add(Half, Div(LnNum(Div(y, r)), LnNum(Lit(10, 0))))

\* log10 of m * 10^e > 0: e + 3 + log10(m / 1000)
Log10Num(x) ==
    Add(Lit(x.e + 3, 0), Log10Mantissa(Num(x.m, -3), sqrt(Lit(10, 0))))

\* numpy.log10: -inf at 0 and nan below it, each with a warning
log10(x) ==
    IF IsRaise(x) THEN x
    ELSE IF x.k = "nan" THEN NaN
    ELSE IF x.m < 0 THEN NaN
    ELSE IF x.k = "inf" THEN x
    ELSE IF x.m = 0 THEN Inf(-1)
    ELSE Log10Num(x)

-----------------------------------------------------------------------------
(* The module, and the integrands the methods define *)

\* from scipy.constants import c
C_SI == Lit(299792458, 0)

\* c = c / 1e3
C_KM_S == Div(C_SI, Lit(1, 3))

E(z, omega_m, omega_l) ==
    sqrt(Add(Add(Mul(omega_m, Pow3(Add(One, z))),
                 Mul(Sub(Sub(One, omega_m), omega_l), Pow2(Add(One, z)))),
             omega_l))

\* integrand(z, om, ol) of D_C
D_C_integrand(z, omega_m, omega_l) ==
    NpDiv(One,
          sqrt(Add(Add(Mul(omega_m, Pow3(Add(One, z))),
                       Mul(Sub(Sub(One, omega_m), omega_l),
                           Pow2(Add(One, z)))),
                   omega_l)))

\* integrand(z, om, ol) of t_L
t_L_integrand(z, omega_m, omega_l) ==
    NpDiv(Div(One, Add(One, z)),
          sqrt(Add(Add(Mul(omega_m, Pow3(Add(One, z))),
                       Mul(Sub(Sub(One, omega_m), omega_l),
                           Pow2(Add(One, z)))),
                   omega_l)))

\* the integrand of t without the factor 1 / (1 + z)
t_integrand_of_D_C(z, omega_m, omega_l) ==
    NpDiv(One,
          sqrt(Add(Add(Mul(omega_m, Pow3(Add(One, z))),
                       Mul(Sub(Sub(One, omega_m), omega_l),
                           Pow2(Add(One, z)))),
                   omega_l)))

\* integrand(z, om, ol) of t
t_integrand(z, omega_m, omega_l) ==
    NpDiv(Div(One, Add(One, z)),
          sqrt(Add(Add(Mul(omega_m, Pow3(Add(One, z))),
                       Mul(Sub(Sub(One, omega_m), omega_l),
                           Pow2(Add(One, z)))),
                   omega_l)))

-----------------------------------------------------------------------------
(* scipy.integrate.quad: the Gauss-Kronrod rules QUADPACK applies to the    *)
(* whole interval (21 points on a finite one, 15 points on the half line    *)
(* mapped to (0, 1]); the integrands here are smooth and the first pass is  *)
(* the estimate, so the bisection of an interval that fails the error test  *)
(* is left out.                                                             *)

XGK21 == <<Lit(9957, -4), Lit(9739, -4), Lit(9302, -4), Lit(8651, -4),
           Lit(7808, -4), Lit(6794, -4), Lit(5628, -4), Lit(4334, -4),
           Lit(2944, -4), Lit(1489, -4)>>

WGK21 == <<Lit(1169, -5), Lit(3256, -5), Lit(5476, -5), Lit(7504, -5),
           Lit(9313, -5), Lit(1094, -4), Lit(1235, -4), Lit(1347, -4),
           Lit(1428, -4), Lit(1477, -4), Lit(1494, -4)>>

XGK15 == <<Lit(9915, -4), Lit(9491, -4), Lit(8649, -4), Lit(7415, -4),
           Lit(5861, -4), Lit(4058, -4), Lit(2078, -4)>>

WGK15 == <<Lit(2294, -5), Lit(6309, -5), Lit(1048, -4), Lit(1407, -4),
           Lit(1690, -4), Lit(1904, -4), Lit(2044, -4), Lit(2095, -4)>>

RECURSIVE SumTo(_, _)
SumTo(terms, n) ==
    IF n = 0 THEN Zero ELSE Add(SumTo(terms, n - 1), terms[n])

\* f(x) for the function object f the caller hands to quad: the lambda
\* closing over the method's om and ol
Integrand(f, x) ==
    CASE f = "D_C.integrand" -> D_C_integrand(x, om, ol)
      [] f = "t_L.integrand" -> t_L_integrand(x, om, ol)
      [] f = "t.integrand"   -> t_integrand(x, om, ol)

\* the rule's sum over the node pairs centr -+ absc, then the centre
GK21Pair(f, centr, absc, j) ==
    Mul(WGK21[j],
        Add(Integrand(f, Sub(centr, absc)), Integrand(f, Add(centr, absc))))

GK21(f, centr, hlgth) ==
    Mul(Add(Mul(WGK21[11], Integrand(f, centr)),
            SumTo([j \in 1..10 |->
                     GK21Pair(f, centr, Mul(hlgth, XGK21[j]), j)], 10)),
        hlgth)

\* quad(f, a, b)[0] for finite a <= b
Quad(f, a, b) == GK21(f, Mul(Half, Add(a, b)), Mul(Half, Sub(b, a)))

\* f(a + (1 - t)/t) / t^2: the integrand on x = a + (1 - t)/t, t in (0, 1]
Transformed(f, a, t) ==
    NpDiv(NpDiv(Integrand(f, Add(a, Div(Sub(One, t), t))), t), t)

GK15Pair(f, a, absc, j) ==
    Mul(WGK15[j],
        Add(Transformed(f, a, Sub(Half, absc)),
            Transformed(f, a, Add(Half, absc))))

\* quad(f, a, +Inf)[0]
QuadInf(f, a) ==
    Mul(Add(Mul(WGK15[8], Transformed(f, a, Half)),
            SumTo([j \in 1..7 |-> GK15Pair(f, a, Mul(Half, XGK15[j]), j)],
                  7)),
        Half)

-----------------------------------------------------------------------------
(* class Cosmos *)

H0 == Mul(Lit(100, 0), h)

\* D_H with numpy's division
D_H_numpy == NpDiv(c, H0)

D_H == Div(c, H0)

\* D_C integrating up to 1 + z
D_C_to_scale(z) == Mul(D_H, Quad("D_C.integrand", Zero, Add(One, z)))

D_C(z) == Mul(D_H, Quad("D_C.integrand", Zero, z))

\* ok = 1. - om - ol, in D_M
D_M_ok == Sub(Sub(One, om), ol)

\* D_M's branching with a tolerance around 0 for the flat branch
D_M_regime_eps(ok) ==
    IF Lt(FAbs(ok), Lit(1, -3)) THEN "flat"
    ELSE IF Gt(ok, Zero) THEN "open"
    ELSE "closed"

\* if ok > 0.: ... elif ok == 0.: ... else: ...
D_M_regime(ok) ==
    IF Gt(ok, Zero) THEN "open"
    ELSE IF Eq(ok, Zero) THEN "flat"
    ELSE "closed"

\* D_M with sin in the open branch as well
D_M_branch_sin(_D_C, _D_H, ok, reg) ==
    [br  |-> <<[in |-> "D_M", regime |-> reg]>>,
     val |-> CASE reg = "open" ->
                    Mul(NpDiv(_D_H, sqrt(ok)),
                        sin(NpDiv(Mul(sqrt(ok), _D_C), _D_H)))
               [] reg = "flat" -> _D_C
               [] reg = "closed" ->
                    Mul(NpDiv(_D_H, sqrt(FAbs(ok))),
                        sin(NpDiv(Mul(sqrt(FAbs(ok)), _D_C), _D_H)))]

D_M_branch(_D_C, _D_H, ok, reg) ==
    [br  |-> <<[in |-> "D_M", regime |-> reg]>>,
     val |-> CASE reg = "open" ->
                    Mul(NpDiv(_D_H, sqrt(ok)),
                        sinh(NpDiv(Mul(sqrt(ok), _D_C), _D_H)))
               [] reg = "flat" -> _D_C
               [] reg = "closed" ->
                    Mul(NpDiv(_D_H, sqrt(FAbs(ok))),
                        sin(NpDiv(Mul(sqrt(FAbs(ok)), _D_C), _D_H)))]

D_M_body(_D_C, _D_H, ok) ==
    IF IsRaise(_D_C) THEN [val |-> _D_C, br |-> <<>>]
    ELSE IF IsRaise(_D_H) THEN [val |-> _D_H, br |-> <<>>]
    ELSE D_M_branch(_D_C, _D_H, ok, D_M_regime(ok))

\* D_M with the curvature branch it took (none when D_C or D_H raised first)
D_M_run(z) == D_M_body(D_C(z), D_H, D_M_ok)

D_M(z) == D_M_run(z).val

\* D_A dividing by (1 + z)^2
D_A_squared(z) == Div(D_M(z), Pow2(Add(One, z)))

D_A(z) == Div(D_M(z), Add(One, z))

\* D_L multiplying by 1 - z
D_L_minus(z) == Mul(Sub(One, z), D_M(z))

D_L(z) == Mul(Add(One, z), D_M(z))

DM(z) ==
    Mul(Lit(5, 0), log10(Div(Mul(D_L(z), Lit(1, 6)), Lit(10, 0))))

dV_C_body(z, _D_H, _D_A) ==
    IF IsRaise(_D_H) THEN _D_H
    ELSE NpDiv(Mul(Mul(_D_H, Pow2(Add(One, z))), Pow2(_D_A)), E(z, om, ol))

dV_C(z) == dV_C_body(z, D_H, D_A(z))

\* the name arcsinh is bound nowhere in the module: looking it up raises
arcsinh(x) == Raise("NameError")

\* ok = 1. - om - ol, in V_C
V_C_ok == Sub(Sub(One, om), ol)

\* V_C's branching with a tolerance around 0 for the flat branch
V_C_regime_eps(ok) ==
    IF Lt(FAbs(ok), Lit(1, -3)) THEN "flat"
    ELSE IF Gt(ok, Zero) THEN "open"
    ELSE "closed"

\* if ok == 0.: ... else: (if ok > 0.: ... else: ...)
V_C_regime(ok) ==
    IF Eq(ok, Zero) THEN "flat"
    ELSE IF Gt(ok, Zero) THEN "open"
    ELSE "closed"

\* the else branch of V_C, with mh = _D_M / _D_H
V_C_curved(reg, ok, _D_H, mh) ==
    CASE reg = "open" ->
           Mul(Div(Mul(Mul(Lit(2, 0), pi), Pow3(_D_H)), ok),
               Sub(Mul(mh, sqrt(Add(One, Mul(ok, Pow2(mh))))),
                   NpDiv(arcsinh(Mul(mh, sqrt(FAbs(ok)))), sqrt(FAbs(ok)))))
      [] reg = "closed" ->
           Mul(Div(Mul(Mul(Lit(2, 0), pi), Pow3(_D_H)), ok),
               Sub(Mul(mh, sqrt(Add(One, Mul(ok, Pow2(mh))))),
                   NpDiv(arcsin(Mul(mh, sqrt(FAbs(ok)))), sqrt(FAbs(ok)))))

V_C_branch(ok, _D_M, _D_H, reg) ==
    IF reg = "flat"
    THEN Div(Mul(Mul(Lit(4, 0), pi), Pow3(_D_M)), Lit(3, 0))
    ELSE V_C_curved(reg, ok, _D_H, Div(_D_M, _D_H))

V_C_body(ok, dm, reg) ==
    IF IsRaise(dm.val) THEN dm
    ELSE [br  |-> dm.br \o <<[in |-> "V_C", regime |-> reg]>>,
          val |-> V_C_branch(ok, dm.val, D_H, reg)]

\* V_C with the curvature branches it went through: D_M's, then its own
V_C_run(z) == V_C_body(V_C_ok, D_M_run(z), V_C_regime(V_C_ok))

V_C(z) == V_C_run(z).val

\* 1/H0 in s Mpc/km, in s, then in Gyr
t_H_Gyr(t1) ==
    Mul(Mul(t1, Mul(Mul(Lit(1, -3), Lit(1, 6)), Lit(30856776, 9))),
        Mul(Div(One, Mul(Mul(Lit(36525, -2), Lit(24, 0)), Lit(3600, 0))),
            Lit(1, -9)))

t_H == t_H_Gyr(Div(One, H0))

t_L(z) == Mul(t_H, Quad("t_L.integrand", Zero, z))

t(z) == Mul(t_H, QuadInf("t.integrand", z))

dP(z) == NpDiv(Mul(D_H, Pow2(Add(One, z))), E(z, om, ol))

-----------------------------------------------------------------------------
(* The inputs *)

\* cosmologies (omega_matter, omega_lambda, h_100) the constructor is given
Cosmologies ==
    <<[om |-> Lit(3, -1), ol |-> Lit(7, -1),    h |-> Lit(7, -1)],
      [om |-> Lit(1, 0),  ol |-> Zero,          h |-> Lit(5, -1)],
      [om |-> Lit(3, -1), ol |-> Zero,          h |-> Lit(7, -1)],
      [om |-> Lit(3, -1), ol |-> Lit(7001, -4), h |-> Lit(7, -1)],
      [om |-> Lit(5, -1), ol |-> Lit(15, -1),   h |-> Lit(7, -1)],
      [om |-> Lit(3, -1), ol |-> Lit(16, -1),   h |-> Lit(7, -1)],
      [om |-> Zero,       ol |-> Zero,          h |-> Lit(7, -1)],
      [om |-> Lit(1, 0),  ol |-> Lit(1, 0),     h |-> Lit(1, 0)]>>

NCosmologies == 7

\* redshifts the methods are called with
Redshifts ==
    <<Zero, Lit(5, -1), One, Lit(2, 0), Lit(8, 0), Lit(3, 0), Lit(20, 0)>>

NRedshifts == 5

Zs == {Redshifts[i] : i \in 1..NRedshifts}

-----------------------------------------------------------------------------
(* The program *)

\* import of the module, then Cosmos(omega_matter, omega_lambda, h_100)
Construct(omega_matter, omega_lambda, h_100) ==
    /\ c = C_KM_S
    /\ om = omega_matter
    /\ ol = omega_lambda
    /\ h = h_100
    /\ pc = "idle"
    /\ call = "__init__"
    /\ arg = None
    /\ branch = <<>>
    /\ ret = None

Init ==
    \E i \in 1..NCosmologies :
        Construct(Cosmologies[i].om, Cosmologies[i].ol, Cosmologies[i].h)

\* h_100 = 0
InitH0 ==
    \E i \in 1..NCosmologies :
        Construct(Cosmologies[i].om, Cosmologies[i].ol, Zero)

\* a call that rescales the module's c again
Frame_rescales_c == c' = Div(c, Lit(1, 3)) /\ UNCHANGED <<om, ol, h>>

\* no attribute or method assigns to self.om, self.ol, self.h or to c
Frame == UNCHANGED <<om, ol, h, c>>

Returns(name, z, value, br) ==
    /\ pc = "idle"
    /\ pc' = "returned"
    /\ call' = name
    /\ arg' = z
    /\ ret' = value
    /\ branch' = br
    /\ Frame

Get_H0 == Returns("H0", None, H0, <<>>)

Get_D_H == Returns("D_H", None, D_H, <<>>)

Get_t_H == Returns("t_H", None, t_H, <<>>)

Call_D_C(z) == Returns("D_C", z, D_C(z), <<>>)

\* a method returning with the curvature branches it went through
ReturnsRun(name, z, run) == Returns(name, z, run.val, run.br)

Call_D_M(z) == ReturnsRun("D_M", z, D_M_run(z))

Call_D_A(z) == Returns("D_A", z, D_A(z), D_M_run(z).br)

Call_D_L(z) == Returns("D_L", z, D_L(z), D_M_run(z).br)

Call_DM(z) == Returns("DM", z, DM(z), D_M_run(z).br)

Call_dV_C(z) ==
    Returns("dV_C", z, dV_C(z), IF IsRaise(D_H) THEN <<>> ELSE D_M_run(z).br)

Call_V_C(z) == ReturnsRun("V_C", z, V_C_run(z))

Call_t_L(z) == Returns("t_L", z, t_L(z), <<>>)

Call_t(z) == Returns("t", z, t(z), <<>>)

Call_dP(z) == Returns("dP", z, dP(z), <<>>)

\* the caller drops the result and may call again
Discard ==
    /\ pc = "returned"
    /\ pc' = "idle"
    /\ call' = "__init__"
    /\ arg' = None
    /\ branch' = <<>>
    /\ ret' = None
    /\ Frame

Next ==
    \/ Get_H0
    \/ Get_D_H
    \/ Get_t_H
    \/ \E z \in Zs : Call_D_C(z)
    \/ \E z \in Zs : Call_D_M(z)
    \/ \E z \in Zs : Call_D_A(z)
    \/ \E z \in Zs : Call_D_L(z)
    \/ \E z \in Zs : Call_DM(z)
    \/ \E z \in Zs : Call_dV_C(z)
    \/ \E z \in Zs : Call_V_C(z)
    \/ \E z \in Zs : Call_t_L(z)
    \/ \E z \in Zs : Call_t(z)
    \/ \E z \in Zs : Call_dP(z)
    \/ Discard

Spec == Init /\ [][Next]_vars

SpecH0 == InitH0 /\ [][Next]_vars

-----------------------------------------------------------------------------
(* The properties *)

Returned(name) == pc = "returned" /\ call = name

\* the regime the curvature branching of method who selected in this call
RegimeIn(who) ==
    {branch[i].regime : i \in {j \in 1..Len(branch) : branch[j].in = who}}

\* omega in units of 10^-5, as an integer (omega < 10, at most five decimals)
Scaled(a) == a.m * Pow10(a.e + 5)

\* 1 - om - ol in exact arithmetic, in units of 10^-5
ExactOk == 100000 - Scaled(om) - Scaled(ol)

\* a and b are finite and differ by at most n units of the fourth digit
Close(a, b, n) ==
    /\ IsNum(a)
    /\ IsNum(b)
    /\ Le(FAbs(Sub(a, b)), Mul(Lit(n, -3), FAbs(b)))

\* C1: V_C(z) returns a number, never a raised fault, in each of the three
\* curvature regimes.  The code breaks it: the open regime looks up the
\* unbound name arcsinh.
C1_V_C_Numeric == Returned("V_C") => IsNum(ret)

\* C2: in a flat cosmology (om + ol = 1 exactly) D_M takes the flat branch
\* and returns exactly D_C(z); nothing but exact flatness selects that
\* branch: om + ol < 1 takes the sinh branch, om + ol > 1 the sin branch.
C2_FlatIsExact ==
    Returned("D_M") =>
        /\ ExactOk = 0 => RegimeIn("D_M") = {"flat"} /\ ret = D_C(arg)
        /\ ExactOk > 0 => RegimeIn("D_M") = {"open"}
        /\ ExactOk < 0 => RegimeIn("D_M") = {"closed"}

C2_Witness ==
    /\ Returned("D_M")
    /\ ExactOk = 0
    /\ arg = One
    /\ RegimeIn("D_M") = {"flat"}
    /\ Gt(ret, Zero)
    /\ ret = D_C(One)

\* C6: with h_100 > 0, in every curvature regime, D_C, D_M, D_A, D_L and t_L
\* return exactly 0 at z = 0.
C6_ZeroAtZero ==
    /\ pc = "returned"
    /\ call \in {"D_C", "D_M", "D_A", "D_L", "t_L"}
    /\ arg = Zero
    => ret = Zero

C6_Witness ==
    /\ Returned("D_M")
    /\ arg = Zero
    /\ RegimeIn("D_M") = {"closed"}
    /\ ret = Zero

\* C8: no call changes the stored om, ol, h or the module's c.
C8_Frame == [][om' = om /\ ol' = ol /\ h' = h /\ c' = c]_vars

C8_Witness ==
    /\ Returned("dP")
    /\ arg = One
    /\ c = C_KM_S
    /\ \E i \in 1..NCosmologies :
          /\ om = Cosmologies[i].om
          /\ ol = Cosmologies[i].ol
          /\ h = Cosmologies[i].h
          /\ Gt(ret, Zero)

\* C10: in a call of V_C, D_M and V_C each take exactly one curvature branch,
\* and the same one.
C10_SameRegime ==
    Returned("V_C") =>
        /\ Len(branch) = 2
        /\ branch[1].in = "D_M"
        /\ branch[2].in = "V_C"
        /\ branch[1].regime = branch[2].regime

C10_Witness ==
    /\ Returned("V_C")
    /\ ExactOk = -10
    /\ RegimeIn("D_M") = {"closed"}
    /\ RegimeIn("V_C") = {"closed"}

\* (1 + z)^2 * D_A(z)
ScaledD_A(z) == Mul(Pow2(Add(One, z)), D_A(z))

\* C3 as stated: D_L(z) = (1 + z)^2 * D_A(z).
C3_Exact == Returned("D_L") => Eq(ret, ScaledD_A(arg))

\* C3, amended: D_L(z) and (1 + z)^2 * D_A(z), one D_M(z) multiplied and
\* divided by 1 + z, agree up to the rounding of the floating point
\* operations, in every curvature regime.
C3_LuminosityAngular == Returned("D_L") => Close(ret, ScaledD_A(arg), 3)

C3_Witness ==
    /\ Returned("D_L")
    /\ arg = Lit(2, 0)
    /\ RegimeIn("D_M") = {"closed"}
    /\ ~Eq(ret, ScaledD_A(arg))
    /\ Close(ret, ScaledD_A(arg), 3)

\* C4 as stated: with h_100 = 0, D_H and t_H are +infinity, no fault is
\* raised, and D_C, D_M, D_A, D_L, t_L, t and dP are infinite too.
C4_InfinityNoFault ==
    /\ pc = "returned"
    /\ call \in {"D_H", "t_H", "D_C", "D_M", "D_A", "D_L", "t_L", "t", "dP"}
    => ret = Inf(1)

\* C4, amended: with h_100 = 0 (a Python number), H0 is 0, and D_H and t_H
\* raise ZeroDivisionError, as does every method that reads them.
C4_ZeroHubbleRaises ==
    /\ Returned("H0") => ret = Zero
    /\ pc = "returned" /\ call # "H0" => ret = Raise("ZeroDivisionError")

C4_Witness ==
    /\ h = Zero
    /\ Returned("t")
    /\ arg = One
    /\ ret = Raise("ZeroDivisionError")

\* sqrt(|ok|) * D_C(z) / D_H, the angle the sin branch of D_M is taken of
Angle(z) == NpDiv(Mul(sqrt(FAbs(D_M_ok)), D_C(z)), D_H)

\* z > 0, in a flat or open cosmology or short of the angle pi
PositiveRange(z) == Gt(z, Zero) /\ (ExactOk >= 0 \/ Lt(Angle(z), pi))

\* C5 as stated: for z >= 0, D_L(z) > 0 and DM(z) is finite.
C5_PositiveFromZero ==
    /\ Returned("D_L") => Gt(ret, Zero)
    /\ Returned("DM") => IsNum(ret)

\* C5, amended: D_L(z) > 0 and DM(z) is finite for z > 0 in a flat or open
\* cosmology, and in a closed one while sqrt(|ok|) D_C(z) / D_H < pi.  At
\* z = 0, D_L is 0 and DM is -inf.
C5_ModulusDefined ==
    /\ Returned("D_L") /\ PositiveRange(arg) => Gt(ret, Zero)
    /\ Returned("DM") /\ PositiveRange(arg) => IsNum(ret)
    /\ Returned("D_L") /\ arg = Zero => ret = Zero
    /\ Returned("DM") /\ arg = Zero => ret = Inf(-1)

C5_Witness ==
    /\ Returned("DM")
    /\ arg = Lit(5, -1)
    /\ ExactOk = 0
    /\ IsNum(ret)
    /\ Gt(D_L(arg), Zero)

\* C7 as stated: t(z) + t_L(z) = t(0), and t is strictly decreasing.
C7_AgeExact ==
    Returned("t") =>
        /\ Eq(Add(ret, t_L(arg)), t(Zero))
        /\ \A z \in Zs : Lt(arg, z) => Lt(t(z), ret)

\* C7, amended: where the age integral converges, t(z) + t_L(z) agrees
\* with t(0) up to the error of the two quadratures and of rounding, and
\* t is strictly decreasing in z.
C7_AgeBalance ==
    Returned("t") =>
        /\ Close(Add(ret, t_L(arg)), t(Zero), 3)
        /\ \A z \in Zs : Lt(arg, z) => Lt(t(z), ret)

C7_Witness ==
    /\ Returned("t")
    /\ arg = One
    /\ Gt(t_L(arg), Zero)
    /\ ~Eq(Add(ret, t_L(arg)), t(Zero))
    /\ Close(Add(ret, t_L(arg)), t(Zero), 3)
    /\ Lt(t(Lit(2, 0)), ret)

\* C9 as stated: D_C, D_M and t_L are strictly increasing in z, in the
\* closed regime too.
C9_AllIncreasing ==
    \A z \in Zs :
        Lt(arg, z) =>
            /\ Returned("D_C") => Lt(ret, D_C(z))
            /\ Returned("D_M") => Lt(ret, D_M(z))
            /\ Returned("t_L") => Lt(ret, t_L(z))

\* C9, amended: D_C and t_L are strictly increasing in z in every regime;
\* D_M is strictly increasing in a flat or open cosmology, and in a closed
\* one only while sqrt(|ok|) D_C(z) / D_H <= pi / 2.
C9_Monotone ==
    \A z \in Zs :
        Lt(arg, z) =>
            /\ Returned("D_C") => Lt(ret, D_C(z))
            /\ Returned("t_L") => Lt(ret, t_L(z))
            /\ Returned("D_M") /\ (ExactOk >= 0 \/ Le(Angle(z), HalfPi))
               => Lt(ret, D_M(z))

C9_Witness ==
    /\ Returned("D_M")
    /\ RegimeIn("D_M") = {"closed"}
    /\ arg = Lit(5, -1)
    /\ Le(Angle(One), HalfPi)
    /\ Lt(ret, D_M(One))


====
